---- MODULE Spec2Model ----
(***************************************************************************)
(* Model of the Express/SSE gateway of benraz-mcp-server (the server code  *)
(* listed in src/README.md, lines 291-712) and of the tool collaborators   *)
(* (src/src/weather.ts, src/src/modules/googleSearch.ts,                   *)
(* src/unnamed/part_000).                                                  *)
(*                                                                         *)
(* Every Express handler runs to completion on the single Node.js event    *)
(* loop, so each action below is one handler, or one segment of the async  *)
(* toolCallHandler between two suspension points (its only await is the    *)
(* call of the tool handler).                                              *)
(***************************************************************************)
EXTENDS Integers, Sequences, FiniteSets, TLC

\* ------------------------------------------------------------------ bounds
MaxTime == 1        \* Date.now() takes the values 0..MaxTime
MaxRnd == 1         \* Math.random() suffix takes the values 1..MaxRnd
MaxHttp == 3        \* HTTP requests (GET /sse or POST /tool_call) the server receives
MaxHttpInputs == 2  \* the same, in the specification that explores every request body
MaxHttpRegistry == 1 \* the same, in the specification that explores the registrations
MaxHttpSerialize == 2 \* the same, in the specification with an unserializable result

Times == 0..MaxTime
Rnds == 1..MaxRnd
Channels == 1..MaxHttp
Reqs == 1..MaxHttp

VARIABLES
  now,                  \* the value Date.now() returns
  tools,                \* the Map `tools`, as the sequence of its entries in insertion order
  mcpHandshakeResponse, \* the constant built from `tools` at module load
  activeSseClients,     \* the Map `activeSseClients`: clientId -> Response (channel index)
  nch,                  \* number of /sse requests handled so far
  chan,                 \* per channel: the Response object of one /sse request
  nreq,                 \* number of /tool_call requests received so far
  req,                  \* per /tool_call request: its body, progress and HTTP reply
  pc                    \* the module's position: "load" (registerTool calls), "listen"

vars == <<now, tools, mcpHandshakeResponse, activeSseClients, nch, chan, nreq, req, pc>>

\* ------------------------------------------------------------------ values
\* A JSON value of a parameter payload: a string, a number, or undefined.
Str(s) == [k |-> "string", s |-> s, n |-> 0]
Num(n) == [k |-> "number", s |-> "", n |-> n]
Undefined == [k |-> "undefined", s |-> "", n |-> 0]

\* clientId = `client-${Date.now()}-${Math.random().toString(36).substring(2, 7)}`
ClientId(t, rnd) == <<t, rnd>>
\* client_id values of a request body that no /sse handler ever produced
CidUndefined == <<-1, 0>>       \* the field is absent (undefined)
CidEmpty == <<-1, 1>>           \* the field is the empty string
CidForged == <<-1, 2>>          \* a non-empty string that is no assigned clientId
\* `!clientId`
Falsy(cid) == cid \in {CidUndefined, CidEmpty}
ClientIds == {ClientId(t, r) : t \in Times, r \in Rnds}
ClientIdInputs == ClientIds \cup {CidUndefined, CidEmpty, CidForged}

\* ------------------------------------------------------------------ zod schemas
\* One field of a z.object() shape.  len = 0: no .length() check.
ZString(key, len) ==
  [key |-> key, kind |-> "string", optional |-> FALSE, len |-> len,
   ranged |-> FALSE, min |-> 0, max |-> 0]
ZNumber(key, lo, hi, optional) ==
  [key |-> key, kind |-> "number", optional |-> optional, len |-> 0,
   ranged |-> TRUE, min |-> lo, max |-> hi]

Keys == {"state", "latitude", "longitude", "query", "count"}

\* The four registerTool(...) calls, in program order.
GetAlertsTool ==
  [name |-> "get-alerts", description |-> "Get weather alerts for a state",
   schema |-> <<ZString("state", 2)>>]
GetForecastTool ==
  [name |-> "get-forecast", description |-> "Get weather forecast for a location",
   schema |-> <<ZNumber("latitude", -90, 90, FALSE), ZNumber("longitude", -180, 180, FALSE)>>]
\* (mutant) the count of brave-web-search is registered without its upper limit
BraveWebSearchToolNoLimit ==
  [name |-> "brave-web-search", description |-> "Search the web using Brave Search",
   schema |-> <<ZString("query", 0), ZNumber("count", 1, 1000, TRUE)>>]
BraveWebSearchTool ==
  [name |-> "brave-web-search", description |-> "Search the web using Brave Search",
   schema |-> <<ZString("query", 0), ZNumber("count", 1, 20, TRUE)>>]
GoogleSearchTool ==
  [name |-> "google-search", description |-> "Search the web using Google Custom Search",
   schema |-> <<ZString("query", 0), ZNumber("count", 1, 10, TRUE)>>]
Registrations == <<GetAlertsTool, GetForecastTool, BraveWebSearchTool, GoogleSearchTool>>

\* tools.has(name), tools.get(name) on the Map kept as a sequence of entries
ToolsHas(m, name) == \E i \in 1..Len(m) : m[i].name = name
ToolsGet(m, name) == m[CHOOSE i \in 1..Len(m) : m[i].name = name]

\* registerTool: tools.set(name, {description, schema, handler}).  Map.set on an
\* existing key replaces the value and keeps the key's insertion position.
registerTool(m, def) ==
  IF ToolsHas(m, def.name)
    THEN [i \in 1..Len(m) |-> IF m[i].name = def.name THEN def ELSE m[i]]
    ELSE Append(m, def)

RECURSIVE RegisterAll(_, _)
RegisterAll(m, defs) ==
  IF defs = <<>> THEN m ELSE RegisterAll(registerTool(m, Head(defs)), Tail(defs))

\* (mutant) every key of the shape is pushed to `required`
RequiredKeysAll(schema) == [i \in DOMAIN schema |-> schema[i].key]

\* The `required` array of one capability entry: the keys, in shape order, whose
\* field is neither ZodOptional nor ZodDefault.
RECURSIVE RequiredKeys(_)
RequiredKeys(schema) ==
  IF schema = <<>> THEN <<>>
  ELSE (IF Head(schema).optional THEN <<>> ELSE <<Head(schema).key>>)
       \o RequiredKeys(Tail(schema))

\* zodToJsonSchemaProperty: optional wrappers are unwrapped to the inner type
zodToJsonSchemaProperty(fd) == [key |-> fd.key, type |-> fd.kind]

\* capabilities.tools of mcpHandshakeResponse: one entry per Map entry, in order.
\* hasRequired = FALSE stands for the `required` key being left out.
CapabilityEntry(def) ==
  [name |-> def.name, description |-> def.description,
   properties |-> [i \in 1..Len(def.schema) |-> zodToJsonSchemaProperty(def.schema[i])],
   hasRequired |-> Len(RequiredKeys(def.schema)) > 0,
   required |-> RequiredKeys(def.schema)]
McpHandshakeResponse(m) == [i \in 1..Len(m) |-> CapabilityEntry(m[i])]

\* ---- schema.parse(parameters)
\* A raw parameter payload: obj = FALSE is a missing (undefined) `parameters`.
Payload(state, latitude, longitude, query, count) ==
  [obj |-> TRUE,
   f |-> [k \in Keys |-> CASE k = "state" -> state
                          [] k = "latitude" -> latitude
                          [] k = "longitude" -> longitude
                          [] k = "query" -> query
                          [] OTHER -> count]]
NoPayload == [obj |-> FALSE, f |-> [k \in Keys |-> Undefined]]

Issue(key, code) == [path |-> key, code |-> code]

\* (mutant) the .max() check of a number is not applied
FieldIssuesNoMax(fd, v) ==
  IF v.k = "undefined"
    THEN (IF fd.optional THEN <<>> ELSE <<Issue(fd.key, "invalid_type")>>)
  ELSE IF v.k # fd.kind THEN <<Issue(fd.key, "invalid_type")>>
  ELSE IF fd.kind = "string"
    THEN (IF fd.len # 0 /\ Len(v.s) < fd.len THEN <<Issue(fd.key, "too_small")>>
          ELSE IF fd.len # 0 /\ Len(v.s) > fd.len THEN <<Issue(fd.key, "too_big")>>
          ELSE <<>>)
  ELSE (IF fd.ranged /\ v.n < fd.min THEN <<Issue(fd.key, "too_small")>> ELSE <<>>)

\* The issues zod reports for one field: a type issue, or one issue per failed check.
FieldIssues(fd, v) ==
  IF v.k = "undefined"
    THEN (IF fd.optional THEN <<>> ELSE <<Issue(fd.key, "invalid_type")>>)
  ELSE IF v.k # fd.kind THEN <<Issue(fd.key, "invalid_type")>>
  ELSE IF fd.kind = "string"
    THEN (IF fd.len # 0 /\ Len(v.s) < fd.len THEN <<Issue(fd.key, "too_small")>>
          ELSE IF fd.len # 0 /\ Len(v.s) > fd.len THEN <<Issue(fd.key, "too_big")>>
          ELSE <<>>)
  ELSE (IF fd.ranged /\ v.n < fd.min THEN <<Issue(fd.key, "too_small")>> ELSE <<>>)
       \o (IF fd.ranged /\ v.n > fd.max THEN <<Issue(fd.key, "too_big")>> ELSE <<>>)

\* (mutant) parsing stops at the first field that has an issue
RECURSIVE ShapeIssuesFirstOnly(_, _)
ShapeIssuesFirstOnly(schema, p) ==
  IF schema = <<>> THEN <<>>
  ELSE IF FieldIssues(Head(schema), p.f[Head(schema).key]) # <<>>
    THEN FieldIssues(Head(schema), p.f[Head(schema).key])
  ELSE ShapeIssuesFirstOnly(Tail(schema), p)

RECURSIVE ShapeIssues(_, _)
ShapeIssues(schema, p) ==
  IF schema = <<>> THEN <<>>
  ELSE FieldIssues(Head(schema), p.f[Head(schema).key]) \o ShapeIssues(Tail(schema), p)

\* tool.schema.parse(parameters): the ZodError's issues; << >> when parse returns.
ZodParse(schema, p) ==
  IF ~p.obj THEN <<Issue("", "invalid_type")>> ELSE ShapeIssues(schema, p)

\* ------------------------------------------------------------------ collaborators
\* What one outbound HTTP call meets: the fetch rejects, the status is not OK, the
\* body has no entries, the body is well formed, or the body parses as JSON but an
\* entry lacks the object a formatter dereferences.
Upstreams == {"neterr", "nonok", "nodata", "data", "malformed"}

\* The outcomes in which the HTTP call itself failed
UpstreamFailures == {"neterr", "nonok"}

\* (mutant) a failed request surfaces in the handler instead of becoming null
makeNWSRequestRethrow(up) == IF up \in {"neterr", "nonok"} THEN "malformed" ELSE up

\* WeatherServiceImpl.makeNWSRequest: null on any failure, the parsed body otherwise
makeNWSRequest(up) == IF up \in {"neterr", "nonok"} THEN "null" ELSE up

\* BraveServiceImpl.search / GoogleSearchServiceImpl.search: the mapping of the
\* entries runs inside the try block, so every failure gives the empty list
search(up) == IF up = "data" THEN "results" ELSE "empty"

Returned(text, calls) == [threw |-> FALSE, text |-> text, calls |-> calls]
Threw(calls) == [threw |-> TRUE, text |-> "TypeError", calls |-> calls]

\* The handler passed to registerTool("get-alerts", ...)
GetAlertsHandler(up1) ==
  LET alertsData == makeNWSRequest(up1) IN
  IF alertsData = "null" THEN Returned("Failed to retrieve alerts data", 1)
  ELSE IF alertsData = "nodata" THEN Returned("No active alerts for", 1)
  ELSE IF alertsData = "malformed" THEN Threw(1)      \* formatAlert reads feature.properties.event
  ELSE Returned("Active alerts for", 1)

\* The handler passed to registerTool("get-forecast", ...)
GetForecastHandler(up1, up2) ==
  LET pointsData == makeNWSRequest(up1)
      forecastData == makeNWSRequest(up2) IN
  IF pointsData \in {"null", "nodata"}
    THEN Returned("Failed to get forecast data for this location", 1)
  ELSE IF forecastData \in {"null", "nodata"} THEN Returned("No forecast data available", 2)
  ELSE IF forecastData = "malformed" THEN Threw(2)    \* period.name of a null period
  ELSE Returned("Forecast for", 2)

\* The handler passed to registerTool("brave-web-search", ...)
BraveHandler(up1) ==
  IF search(up1) = "empty" THEN Returned("No search results found", 1)
  ELSE Returned("Search results for", 1)

\* The handler passed to registerTool("google-search", ...)
GoogleHandler(up1) ==
  IF search(up1) = "empty" THEN Returned("No results found from Google Search.", 1)
  ELSE Returned("Google Search results for", 1)

\* A handler result that JSON.stringify throws on (a cyclic object, a BigInt), and
\* a handler of type ToolHandler that returns it; none of the four tools does.
Cyclic == "<cyclic object>"
CyclicHandler == Returned(Cyclic, 0)

\* tool.handler(validatedParams), once every collaborator call it awaits has settled
RunHandler(tool_name, up1, up2) ==
  CASE tool_name = "get-alerts" -> GetAlertsHandler(up1)
    [] tool_name = "get-forecast" -> GetForecastHandler(up1, up2)
    [] tool_name = "brave-web-search" -> BraveHandler(up1)
    [] tool_name = "cyclic" -> CyclicHandler
    [] OTHER -> GoogleHandler(up1)

\* ------------------------------------------------------------------ SSE frames
NoIssues == <<>>

\* (mutant) the capability list is built anew at each open and is empty later on
HandshakeDataPerClock ==
  [type |-> "mcp_handshake_response", id |-> "", tool_name |-> "", error_type |-> "",
   client_id |-> CidUndefined, text |-> "", issues |-> NoIssues,
   capabilities |-> IF now = 0 THEN mcpHandshakeResponse ELSE <<>>]

\* The objects passed to JSON.stringify as the data of a frame
HandshakeData ==
  [type |-> "mcp_handshake_response", id |-> "", tool_name |-> "", error_type |-> "",
   client_id |-> CidUndefined, text |-> "", issues |-> NoIssues,
   capabilities |-> mcpHandshakeResponse]
ClientIdAssignedData(clientId) ==
  [type |-> "client_id_assigned", id |-> "", tool_name |-> "", error_type |-> "",
   client_id |-> clientId, text |-> "", issues |-> NoIssues, capabilities |-> <<>>]
ErrorData(messageId, error_type, text, issues) ==
  [type |-> "error", id |-> messageId, tool_name |-> "", error_type |-> error_type,
   client_id |-> CidUndefined, text |-> text, issues |-> issues, capabilities |-> <<>>]
\* (mutant) the tool_response payload is built without the tool name
ToolResponseDataAnonymous(messageId, tool_name, text) ==
  [type |-> "tool_response", id |-> messageId, tool_name |-> "", error_type |-> "",
   client_id |-> CidUndefined, text |-> text, issues |-> NoIssues, capabilities |-> <<>>]
ToolResponseData(messageId, tool_name, text) ==
  [type |-> "tool_response", id |-> messageId, tool_name |-> tool_name, error_type |-> "",
   client_id |-> CidUndefined, text |-> text, issues |-> NoIssues, capabilities |-> <<>>]

\* One call of res.write(message): the frame's id, event and data lines; ok = FALSE
\* when the call threw.  r is the /tool_call request the frame was built for
\* (0: none), kept for the analysis only.
Write(prefix, t, eventName, data, ok, r) ==
  [id |-> <<prefix, t>>, event |-> eventName, data |-> data, ok |-> ok, r |-> r]

\* ---- the text handed to res.write
\* lines.join(sep)
RECURSIVE Join(_, _)
Join(lines, sep) ==
  IF lines = <<>> THEN ""
  ELSE IF Len(lines) = 1 THEN lines[1]
  ELSE lines[1] \o sep \o Join(Tail(lines), sep)
\* `${messageIdPrefix}-${Date.now()}`
SseMessageId(id) == id[1] \o "-" \o ToString(id[2])
\* JSON.stringify(data), cut down to the id and type members; it emits no line feed
JsonStringify(data) ==
  "{\"id\":\"" \o data.id \o "\",\"type\":\"" \o data.type \o "\"}"
\* JSON.stringify(data) throws: the tool_response carries an unserializable result
JsonStringifyThrows(data) == data.text = Cyclic
\* The message of a res.write call w: the four array elements joined with the
\* string literal '\\n' of the source (a backslash and the letter n), one more
\* appended.
SseMessage(w) ==
  Join(<<"id: " \o SseMessageId(w.id), "event: " \o w.event,
         "data: " \o JsonStringify(w.data), "">>, "\\n") \o "\\n"

MapSet(m, k, v) == [x \in DOMAIN m \cup {k} |-> IF x = k THEN v ELSE m[x]]
EmptyMap == [x \in {} |-> 0]
\* (mutant) the removal empties the registry
MapDeleteClear(m, k) == EmptyMap
MapDelete(m, k) == [x \in DOMAIN m \ {k} |-> m[x]]

\* ------------------------------------------------------------------ request inputs
U == Undefined
PAlertsOk == Payload(Str("CA"), U, U, U, U)
PAlertsLong == Payload(Str("California"), U, U, U, U)
PForecastOk == Payload(U, Num(90), Num(-180), U, U)
PForecastLat == Payload(U, Num(999), Num(0), U, U)
PForecastBoth == Payload(U, Num(91), Num(-181), U, U)
PSearchDefault == Payload(U, U, U, Str("q"), U)
PSearch15 == Payload(U, U, U, Str("q"), Num(15))
PSearch25 == Payload(U, U, U, Str("q"), Num(25))

\* The (tool_name, parameters) pairs of the request bodies explored.  tool_name ""
\* is an absent tool_name; "no-such-tool" is a name that was never registered.
CallCases ==
  {<<"get-alerts", PAlertsOk>>, <<"get-alerts", PAlertsLong>>, <<"get-alerts", NoPayload>>,
   <<"get-forecast", PForecastOk>>, <<"get-forecast", PForecastLat>>,
   <<"get-forecast", PForecastBoth>>, <<"get-forecast", PAlertsOk>>,
   <<"brave-web-search", PSearchDefault>>, <<"brave-web-search", PSearch15>>,
   <<"brave-web-search", PSearch25>>,
   <<"google-search", PSearch15>>, <<"google-search", PSearchDefault>>,
   <<"no-such-tool", PAlertsOk>>, <<"no-such-tool", PAlertsLong>>, <<"", PAlertsOk>>}

\* The `id` of a request body; "" is an absent id.
MessageIds == {"", "a", "b"}

\* ------------------------------------------------------------------ state
NoReply == [status |-> 0, error_type |-> "", id |-> ""]
Reply(status, error_type, id) == [status |-> status, error_type |-> error_type, id |-> id]

NoChannel ==
  [st |-> "none", clientId |-> CidUndefined, hooks |-> FALSE, writes |-> <<>>,
   errored |-> FALSE]
\* One /tool_call request: the fields of its body, its HTTP reply, and for the
\* analysis: trace, the order of its handler call ("handler"), sendSseMessage calls
\* ("push") and reply ("reply"); outcome, how the handler's promise settled; calls,
\* the collaborator calls started; ch and sch, the channel client_id was registered
\* for on entry and when the handler settled (0: not registered); upfail, whether
\* one of the collaborator calls made met a failed HTTP call.
NoRequest ==
  [st |-> "none", id |-> "", tool_name |-> "", parameters |-> NoPayload,
   client_id |-> CidUndefined, reply |-> NoReply, trace |-> <<>>, outcome |-> "",
   calls |-> 0, ch |-> 0, sch |-> 0, upfail |-> FALSE]

Init ==
  /\ now = 0
  /\ tools = RegisterAll(<<>>, Registrations)
  /\ mcpHandshakeResponse = McpHandshakeResponse(RegisterAll(<<>>, Registrations))
  /\ activeSseClients = EmptyMap
  /\ nch = 0
  /\ chan = [c \in Channels |-> NoChannel]
  /\ nreq = 0
  /\ req = [r \in Reqs |-> NoRequest]
  /\ pc = "listen"

\* The clock advances between handlers.
Tick ==
  /\ now < MaxTime
  /\ now' = now + 1
  /\ UNCHANGED <<tools, mcpHandshakeResponse, activeSseClients, nch, chan, nreq, req, pc>>

\* ------------------------------------------------------------------ GET /sse
\* app.get('/sse', ...): rnd is the Math.random() suffix, w1 and w2 tell whether the
\* two res.write calls return (TRUE) or throw (FALSE).
\* (mutant) the two initial frames written in the opposite order
InitialWritesSwapped(clientId, w1, w2) ==
  LET hs == Write("sse-handshake", now, "mcp", HandshakeData, w2, 0)
      ci == Write("sse-clientid", now, "mcp", ClientIdAssignedData(clientId), w1, 0)
  IN  IF w1 THEN <<ci, hs>> ELSE <<ci>>

\* The res.write calls of the /sse handler, in program order: the handshake frame,
\* then the client_id_assigned frame unless the first write threw.
InitialWrites(clientId, w1, w2) ==
  LET hs == Write("sse-handshake", now, "mcp", HandshakeData, w1, 0)
      ci == Write("sse-clientid", now, "mcp", ClientIdAssignedData(clientId), w2, 0)
  IN  IF w1 THEN <<hs, ci>> ELSE <<hs>>

SseHandler(rnd, w1, w2) ==
  /\ LET c == nch + 1
         clientId == ClientId(now, rnd)
         stored == MapSet(activeSseClients, clientId, c)
     IN  IF w1 /\ w2
           THEN \* both writes returned: the three hooks are registered
                /\ activeSseClients' = stored
                /\ chan' = [chan EXCEPT ![c] =
                     [st |-> "open", clientId |-> clientId, hooks |-> TRUE,
                      writes |-> InitialWrites(clientId, w1, w2), errored |-> FALSE]]
           ELSE \* catch: res.end(); activeSseClients.delete(clientId); return
                /\ activeSseClients' = MapDelete(stored, clientId)
                /\ chan' = [chan EXCEPT ![c] =
                     [st |-> "ended", clientId |-> clientId, hooks |-> FALSE,
                      writes |-> InitialWrites(clientId, w1, w2), errored |-> FALSE]]
  /\ nch' = nch + 1
  /\ UNCHANGED <<now, tools, mcpHandshakeResponse, nreq, req, pc>>

\* req.on('close', ...): the client went away
ReqClose(c) ==
  /\ chan[c].hooks /\ chan[c].st = "open"
  /\ activeSseClients' = MapDelete(activeSseClients, chan[c].clientId)
  /\ chan' = [chan EXCEPT ![c].st = "closed"]
  /\ UNCHANGED <<now, tools, mcpHandshakeResponse, nch, nreq, req, pc>>

\* req.on('error', ...)
ReqError(c) ==
  /\ chan[c].hooks /\ chan[c].st = "open" /\ ~chan[c].errored
  /\ activeSseClients' = MapDelete(activeSseClients, chan[c].clientId)
  /\ chan' = [chan EXCEPT ![c].errored = TRUE]
  /\ UNCHANGED <<now, tools, mcpHandshakeResponse, nch, nreq, req, pc>>

\* res.on('error', ...)
ResError(c) ==
  /\ chan[c].hooks /\ chan[c].st = "open" /\ ~chan[c].errored
  /\ activeSseClients' = MapDelete(activeSseClients, chan[c].clientId)
  /\ chan' = [chan EXCEPT ![c].errored = TRUE]
  /\ UNCHANGED <<now, tools, mcpHandshakeResponse, nch, nreq, req, pc>>

\* ------------------------------------------------------------------ POST /tool_call
\* (mutant) the Response object is looked up among all channels ever opened with
\* this clientId instead of in activeSseClients
sendSseMessageStale(clientId, eventName, data, messageIdPrefix, wok, r) ==
  IF \E c \in Channels : chan[c].st # "none" /\ chan[c].clientId = clientId
    THEN [chan EXCEPT ![CHOOSE c \in Channels :
                           chan[c].st # "none" /\ chan[c].clientId = clientId].writes =
            Append(@, Write(messageIdPrefix, now, eventName, data, wok, r))]
    ELSE chan

\* (mutant) the message is written to every registered client
sendSseMessageBroadcast(clientId, eventName, data, messageIdPrefix, wok, r) ==
  IF clientId \in DOMAIN activeSseClients
    THEN [c \in Channels |->
            IF \E k \in DOMAIN activeSseClients : activeSseClients[k] = c
              THEN [chan[c] EXCEPT !.writes =
                      Append(@, Write(messageIdPrefix, now, eventName, data, wok, r))]
              ELSE chan[c]]
    ELSE chan

\* (mutant) the message is put in front of the ones written before
sendSseMessagePrepend(clientId, eventName, data, messageIdPrefix, wok, r) ==
  IF clientId \in DOMAIN activeSseClients
    THEN [chan EXCEPT ![activeSseClients[clientId]].writes =
            <<Write(messageIdPrefix, now, eventName, data, wok, r)>> \o @]
    ELSE chan

\* sendSseMessage(clientId, eventName, data, messageIdPrefix): the channels after the
\* call.  wok tells whether clientRes.write returns (TRUE) or throws (FALSE); a
\* throw is caught and logged.
sendSseMessage(clientId, eventName, data, messageIdPrefix, wok, r) ==
  IF clientId \in DOMAIN activeSseClients
    THEN [chan EXCEPT ![activeSseClients[clientId]].writes =
            Append(@, Write(messageIdPrefix, now, eventName, data, wok, r))]
    ELSE chan

\* (mutant) the `!clientId` check is missing
DecideNoMissingCheck(clientId, tool_name, parameters) ==
  IF clientId \notin DOMAIN activeSseClients THEN "invalid_client_id"
  ELSE IF tool_name = "" \/ ~ToolsHas(tools, tool_name) THEN "unknown_tool"
  ELSE IF ZodParse(ToolsGet(tools, tool_name).schema, parameters) # <<>>
    THEN "invalid_parameters"
  ELSE "ok"

\* (mutant) the tool is looked up before the client_id is checked
DecideToolFirst(clientId, tool_name, parameters) ==
  IF tool_name = "" \/ ~ToolsHas(tools, tool_name) THEN "unknown_tool"
  ELSE IF Falsy(clientId) THEN "missing_client_id"
  ELSE IF clientId \notin DOMAIN activeSseClients THEN "invalid_client_id"
  ELSE IF ZodParse(ToolsGet(tools, tool_name).schema, parameters) # <<>>
    THEN "invalid_parameters"
  ELSE "ok"

\* The checks of toolCallHandler up to schema.parse, in program order: the
\* error_type of the first one that fails, "ok" when tool.handler gets called.
Decide(clientId, tool_name, parameters) ==
  IF Falsy(clientId) THEN "missing_client_id"
  ELSE IF clientId \notin DOMAIN activeSseClients THEN "invalid_client_id"
  ELSE IF tool_name = "" \/ ~ToolsHas(tools, tool_name) THEN "unknown_tool"
  ELSE IF ZodParse(ToolsGet(tools, tool_name).schema, parameters) # <<>>
    THEN "invalid_parameters"
  ELSE "ok"

\* (mutant) every caught error is reported as a validation error
CatchBlockAlwaysZod(isZod) == [error_type |-> "invalid_parameters", status |-> 400]

\* The catch block of toolCallHandler: error_type and HTTP status for the error
\* caught, a ZodError (isZod) or anything else.
CatchBlock(isZod) ==
  IF isZod THEN [error_type |-> "invalid_parameters", status |-> 400]
  ELSE [error_type |-> "tool_error", status |-> 500]

\* `messageId || 'unknown'`
OrUnknown(messageId) == IF messageId = "" THEN "unknown" ELSE messageId

\* toolCallHandler from its entry to its first suspension (await tool.handler(...))
\* or, when a check fails, to its return.
ToolCall(messageId, tool_name, parameters, clientId, wok) ==
  /\ LET r == nreq + 1
         d == Decide(clientId, tool_name, parameters)
         body == [NoRequest EXCEPT !.id = messageId, !.tool_name = tool_name,
                                   !.parameters = parameters, !.client_id = clientId,
                                   !.ch = IF clientId \in DOMAIN activeSseClients
                                            THEN activeSseClients[clientId] ELSE 0]
         issues == ZodParse(ToolsGet(tools, tool_name).schema, parameters)
     IN  CASE d \in {"missing_client_id", "invalid_client_id"} ->
                /\ req' = [req EXCEPT ![r] =
                     [body EXCEPT !.st = "done", !.trace = <<"reply">>,
                                  !.reply = Reply(400, d, OrUnknown(messageId))]]
                /\ chan' = chan
           [] d = "unknown_tool" ->
                /\ chan' = sendSseMessage(clientId, "mcp",
                             ErrorData(messageId, d, "Tool not found.", NoIssues), "err", wok, r)
                /\ req' = [req EXCEPT ![r] =
                     [body EXCEPT !.st = "done", !.trace = <<"push", "reply">>,
                                  !.reply = Reply(400, d, messageId)]]
           [] d = "invalid_parameters" ->
                \* schema.parse threw a ZodError: the catch block
                /\ chan' = sendSseMessage(clientId, "mcp",
                             ErrorData(messageId, CatchBlock(TRUE).error_type,
                                       "Parameter validation failed", issues),
                             "err", wok, r)
                /\ req' = [req EXCEPT ![r] =
                     [body EXCEPT !.st = "done", !.trace = <<"push", "reply">>,
                                  !.reply = Reply(CatchBlock(TRUE).status,
                                                  CatchBlock(TRUE).error_type, messageId)]]
           [] OTHER ->
                \* tool.handler(validatedParams) runs up to its first fetch
                /\ req' = [req EXCEPT ![r] =
                     [body EXCEPT !.st = "pending", !.trace = <<"handler">>, !.calls = 1]]
                /\ chan' = chan
  /\ nreq' = nreq + 1
  /\ UNCHANGED <<now, tools, mcpHandshakeResponse, activeSseClients, nch, pc>>

\* (mutant) the client is removed from the registry when its handler has settled
HandlerSettleRemoving(r, up1, up2, wok) ==
  /\ req[r].st = "pending"
  /\ req' = [req EXCEPT ![r].st = "done"]
  /\ activeSseClients' = MapDelete(activeSseClients, req[r].client_id)
  /\ UNCHANGED <<now, tools, mcpHandshakeResponse, nch, chan, nreq, pc>>

\* toolCallHandler after `await tool.handler(validatedParams)`: the handler's promise
\* settled, with up1 and up2 what its collaborator calls met.
HandlerSettle(r, up1, up2, wok) ==
  /\ req[r].st = "pending"
  /\ LET out == RunHandler(req[r].tool_name, up1, up2)
         cid == req[r].client_id
         rsp == ToolResponseData(req[r].id, req[r].tool_name, out.text)
         done == [req[r] EXCEPT !.st = "done", !.calls = out.calls,
                                !.sch = IF cid \in DOMAIN activeSseClients
                                          THEN activeSseClients[cid] ELSE 0,
                                !.trace = @ \o <<"push", "reply">>,
                                !.upfail = \/ up1 \in UpstreamFailures
                                           \/ out.calls = 2 /\ up2 \in UpstreamFailures,
                                !.outcome = IF out.threw THEN "rejected" ELSE "resolved"]
         \* JSON.stringify runs only when the client was found
         serr == cid \in DOMAIN activeSseClients /\ JsonStringifyThrows(rsp)
     IN  IF ~out.threw /\ ~serr
           THEN /\ chan' = sendSseMessage(cid, "mcp", rsp, "toolrsp", wok, r)
                /\ req' = [req EXCEPT ![r] =
                     [done EXCEPT !.reply = Reply(202, "", req[r].id)]]
           ELSE \* catch block, error not a ZodError: the handler's rejection, or
                \* the TypeError of JSON.stringify thrown out of sendSseMessage
                /\ chan' = sendSseMessage(cid, "mcp",
                             ErrorData(req[r].id, CatchBlock(FALSE).error_type,
                                       IF out.threw THEN out.text ELSE "TypeError",
                                       NoIssues),
                             "err", wok, r)
                /\ req' = [req EXCEPT ![r] =
                     [done EXCEPT !.reply = Reply(CatchBlock(FALSE).status,
                                                  CatchBlock(FALSE).error_type, req[r].id),
                                  !.trace = IF out.threw THEN @
                                            ELSE req[r].trace \o <<"push", "push", "reply">>]]
  /\ UNCHANGED <<now, tools, mcpHandshakeResponse, activeSseClients, nch, nreq, pc>>

\* The request bodies of the specification Spec: a valid and an invalid call of a
\* weather tool, and a call of an unknown tool.
CoreCases ==
  {<<"get-alerts", PAlertsOk>>, <<"get-alerts", PAlertsLong>>,
   <<"no-such-tool", PAlertsOk>>}
CoreIds == {"a", "b"}
CoreClientIds == ClientIds \cup {CidUndefined, CidEmpty}

\* Channel opens, channel events and invocations interleave freely: at most MaxHttp
\* HTTP requests in all.
Next ==
  \/ Tick
  \/ \E rnd \in Rnds, w1, w2 \in BOOLEAN :
       nch + nreq < MaxHttp /\ SseHandler(rnd, w1, w2)
  \/ \E c \in Channels : ReqClose(c)
  \/ \E c \in Channels : ReqError(c)
  \/ \E c \in Channels : ResError(c)
  \/ \E messageId \in CoreIds, cc \in CoreCases, clientId \in CoreClientIds, wok \in BOOLEAN :
       nch + nreq < MaxHttp /\ ToolCall(messageId, cc[1], cc[2], clientId, wok)
  \/ \E r \in Reqs, up1, up2 \in Upstreams, wok \in BOOLEAN : HandlerSettle(r, up1, up2, wok)

Spec == Init /\ [][Next]_vars

\* The same server receiving at most MaxHttpInputs HTTP requests, with every request
\* body of CallCases, MessageIds and ClientIdInputs.
NextInputs ==
  \/ Tick
  \/ \E rnd \in Rnds, w1, w2 \in BOOLEAN :
       nch + nreq < MaxHttpInputs /\ SseHandler(rnd, w1, w2)
  \/ \E c \in Channels : ReqClose(c)
  \/ \E c \in Channels : ReqError(c)
  \/ \E c \in Channels : ResError(c)
  \/ \E messageId \in MessageIds, cc \in CallCases, clientId \in ClientIdInputs, wok \in BOOLEAN :
       nch + nreq < MaxHttpInputs /\ ToolCall(messageId, cc[1], cc[2], clientId, wok)
  \/ \E r \in Reqs, up1, up2 \in Upstreams, wok \in BOOLEAN : HandlerSettle(r, up1, up2, wok)

SpecInputs == Init /\ [][NextInputs]_vars

\* ------------------------------------------------------------------ module load
\* Arguments of registerTool calls besides the program's four: a second definition
\* under the name "get-alerts", and a tool all of whose fields are optional.
GetAlertsLooseTool ==
  [name |-> "get-alerts", description |-> "Get alerts", schema |-> <<ZString("state", 0)>>]
PingTool ==
  [name |-> "ping", description |-> "Ping", schema |-> <<ZNumber("count", 1, 20, TRUE)>>]
RegistrationInputs ==
  {GetAlertsTool, GetAlertsLooseTool, GetForecastTool, BraveWebSearchTool, PingTool}

\* The module before its first statement ran: both Maps empty, nothing built.
InitRegistry ==
  /\ now = 0
  /\ tools = <<>>
  /\ mcpHandshakeResponse = <<>>
  /\ activeSseClients = EmptyMap
  /\ nch = 0
  /\ chan = [c \in Channels |-> NoChannel]
  /\ nreq = 0
  /\ req = [r \in Reqs |-> NoRequest]
  /\ pc = "load"

\* One top-level registerTool(name, description, schema, handler) call
RegisterTool(def) ==
  /\ pc = "load"
  /\ tools' = registerTool(tools, def)
  /\ UNCHANGED <<now, mcpHandshakeResponse, activeSseClients, nch, chan, nreq, req, pc>>

\* The rest of the module body: mcpHandshakeResponse is built from tools.entries(),
\* the routes are installed and main() calls app.listen.
Listen ==
  /\ pc = "load"
  /\ mcpHandshakeResponse' = McpHandshakeResponse(tools)
  /\ pc' = "listen"
  /\ UNCHANGED <<now, tools, activeSseClients, nch, chan, nreq, req>>

\* Any sequence of registerTool calls, then the server listening and channels opening.
NextRegistry ==
  \/ \E def \in RegistrationInputs : RegisterTool(def)
  \/ Listen
  \/ \E rnd \in Rnds, w1, w2 \in BOOLEAN :
       pc = "listen" /\ nch + nreq < MaxHttpRegistry /\ SseHandler(rnd, w1, w2)

SpecRegistry == InitRegistry /\ [][NextRegistry]_vars

\* ------------------------------------------------------------------ unserializable result
\* A fifth registerTool call: a tool without parameters whose handler returns a
\* value that cannot be serialized.
CyclicTool == [name |-> "cyclic", description |-> "Cyclic", schema |-> <<>>]

\* The state after module load with the five tools registered.
InitSerialize ==
  /\ now = 0
  /\ tools = RegisterAll(<<>>, Append(Registrations, CyclicTool))
  /\ mcpHandshakeResponse =
       McpHandshakeResponse(RegisterAll(<<>>, Append(Registrations, CyclicTool)))
  /\ activeSseClients = EmptyMap
  /\ nch = 0
  /\ chan = [c \in Channels |-> NoChannel]
  /\ nreq = 0
  /\ req = [r \in Reqs |-> NoRequest]
  /\ pc = "listen"

SerializeCases == {<<"cyclic", PAlertsOk>>, <<"get-alerts", PAlertsOk>>}

\* The server receiving at most MaxHttpSerialize HTTP requests, among them calls
\* of the fifth tool.
NextSerialize ==
  \/ Tick
  \/ \E rnd \in Rnds, w1, w2 \in BOOLEAN :
       nch + nreq < MaxHttpSerialize /\ SseHandler(rnd, w1, w2)
  \/ \E c \in Channels : ReqClose(c)
  \/ \E c \in Channels : ReqError(c)
  \/ \E c \in Channels : ResError(c)
  \/ \E messageId \in CoreIds, cc \in SerializeCases, clientId \in CoreClientIds, wok \in BOOLEAN :
       nch + nreq < MaxHttpSerialize /\ ToolCall(messageId, cc[1], cc[2], clientId, wok)
  \/ \E r \in Reqs, up1, up2 \in Upstreams, wok \in BOOLEAN : HandlerSettle(r, up1, up2, wok)

SpecSerialize == InitSerialize /\ [][NextSerialize]_vars

\* ================================================================== analysis
\* The frames a channel carries: the res.write calls that returned.
IsOk(w) == w.ok
Frames(c) == SelectSeq(chan[c].writes, IsOk)

\* The res.write calls issued for request r: (channel, position) pairs.
PushSet(r) ==
  {ci \in UNION {{<<c, i>> : i \in DOMAIN chan[c].writes} : c \in Channels} :
     chan[ci[1]].writes[ci[2]].r = r}
PushOf(r) == LET ci == CHOOSE x \in PushSet(r) : TRUE IN chan[ci[1]].writes[ci[2]]
PushChannelOf(r) == (CHOOSE x \in PushSet(r) : TRUE)[1]
\* Exactly one res.write call was issued for request r, on channel c.
OnePushOn(r, c) == Cardinality(PushSet(r)) = 1 /\ PushChannelOf(r) = c

Registered(clientId) == clientId \in DOMAIN activeSseClients
\* The teardown of channel c has run: one of its hooks called activeSseClients.delete.
TornDown(c) == chan[c].st = "closed" \/ chan[c].errored
\* Request r was received / its client_id was in the session registry then / it
\* was in the registry when the handler settled.
Received(r) == req[r].st # "none"
LiveOnEntry(r) == req[r].ch # 0
LiveAtSettle(r) == req[r].sch # 0
Settled(r) == req[r].st = "pending" /\ req'[r].st = "done"
RegisteredNames == {"get-alerts", "get-forecast", "brave-web-search", "google-search"}
\* No two /sse requests drew the same clientId.
DistinctTokens ==
  \A c1, c2 \in Channels :
    (c1 # c2 /\ chan[c1].st # "none" /\ chan[c2].st # "none") =>
      chan[c1].clientId # chan[c2].clientId

\* The parameter contracts of the four tools: the payload breaks the tool's contract.
OutOfRange(v, lo, hi) == v.k # "number" \/ v.n < lo \/ v.n > hi
SchemaViolated(tool_name, p) ==
  \/ ~p.obj
  \/ tool_name = "get-alerts"
       /\ (p.f["state"].k # "string" \/ Len(p.f["state"].s) # 2)
  \/ tool_name = "get-forecast"
       /\ (OutOfRange(p.f["latitude"], -90, 90) \/ OutOfRange(p.f["longitude"], -180, 180))
  \/ tool_name = "brave-web-search"
       /\ \/ p.f["query"].k # "string"
          \/ p.f["count"].k # "undefined" /\ OutOfRange(p.f["count"], 1, 20)
  \/ tool_name = "google-search"
       /\ \/ p.f["query"].k # "string"
          \/ p.f["count"].k # "undefined" /\ OutOfRange(p.f["count"], 1, 10)
HandlerNeverInvoked(r) ==
  /\ req[r].st = "done" /\ req[r].calls = 0
  /\ "handler" \notin {req[r].trace[i] : i \in DOMAIN req[r].trace}

\* ---- C1
\* C1 (as claimed): a valid invocation has its 202 reply before the tool handler is
\* invoked, so whenever a handler has been invoked and has not settled yet, the
\* request already has its 202 reply.
C1_AckBeforeHandler ==
  \A r \in Reqs : req[r].st = "pending" => req[r].reply.status = 202

\* ---- C2
\* C2 (as claimed): an invocation answered 202 has exactly one Event pushed for it,
\* whatever the interleaving of handler completion and channel close (stated here
\* for the runs in which every channel got a token of its own).
C2_AcceptedHasOneEvent ==
  DistinctTokens =>
    \A r \in Reqs : req[r].reply.status = 202 => Cardinality(PushSet(r)) = 1

\* C2 (amended): every invocation gets at most one reply and at most one Event is
\* pushed for it; a request answered 202 has exactly one tool_response Event with
\* its correlation id pushed when its client_id was still in the session registry
\* at the moment the handler completed, and no Event when the session had been
\* removed by then; a request without a reply has no Event.
C2_OneOutcome ==
  \A r \in Reqs :
    /\ Cardinality(PushSet(r)) <= 1
    /\ Len(SelectSeq(req[r].trace, LAMBDA e : e = "reply")) <= 1
    /\ req[r].reply = NoReply => PushSet(r) = {}
    /\ req[r].reply.status = 202 =>
         /\ req[r].st = "done"
         /\ Cardinality(PushSet(r)) = (IF LiveAtSettle(r) THEN 1 ELSE 0)
         /\ LiveAtSettle(r) =>
              /\ PushChannelOf(r) = req[r].sch
              /\ PushOf(r).data.type = "tool_response"
              /\ PushOf(r).data.id = req[r].id
\* a 202 reply with its Event, and a 202 reply whose session was gone
C2_Witness ==
  \E r1, r2 \in Reqs :
    /\ req[r1].reply.status = 202 /\ LiveAtSettle(r1) /\ PushOf(r1).ok
    /\ req[r2].reply.status = 202 /\ ~LiveAtSettle(r2)

\* ---- C3
\* C3: on every channel the first frame is the mcp_handshake_response Event and the
\* second the client_id_assigned Event; a channel stored in the registry carries
\* both, the second one with the token it is stored under, so any tool_response or
\* error Event comes after them.
C3_HandshakeFirst ==
  /\ \A c \in Channels :
       /\ Len(Frames(c)) >= 1 => Frames(c)[1].data.type = "mcp_handshake_response"
       /\ Len(Frames(c)) >= 2 => Frames(c)[2].data.type = "client_id_assigned"
       /\ \A i \in DOMAIN chan[c].writes :
            chan[c].writes[i].data.type \in {"tool_response", "error"} => i > 2
  /\ \A clientId \in DOMAIN activeSseClients :
       /\ Len(Frames(activeSseClients[clientId])) >= 2
       /\ Frames(activeSseClients[clientId])[2].data.client_id = clientId
\* a channel on which an Event of an invocation followed the two initial frames
C3_Witness ==
  \E c \in Channels :
    /\ Len(Frames(c)) >= 3
    /\ Frames(c)[3].data.type \in {"tool_response", "error"}
    /\ Registered(chan[c].clientId)

\* ---- C4
\* C4: a request whose client_id is missing (absent or empty) is answered 400
\* missing_client_id and one whose client_id is not in the session registry is
\* answered 400 invalid_client_id; in both cases nothing is written to any channel
\* and no tool handler is invoked.
C4_ClientIdRejected ==
  \A r \in Reqs :
    (Received(r) /\ ~LiveOnEntry(r)) =>
      /\ req[r].reply.status = 400
      /\ req[r].reply.error_type =
           (IF req[r].client_id \in {CidUndefined, CidEmpty}
              THEN "missing_client_id" ELSE "invalid_client_id")
      /\ PushSet(r) = {}
      /\ HandlerNeverInvoked(r)
      /\ req[r].trace = <<"reply">>
\* both rejections happened, the second for a token whose session was torn down
C4_Witness ==
  \E r1, r2 \in Reqs, c \in Channels :
    /\ req[r1].reply.error_type = "missing_client_id"
    /\ req[r2].reply.error_type = "invalid_client_id"
    /\ req[r2].client_id = chan[c].clientId /\ TornDown(c)

\* ---- C5
\* C5: a request with a live client_id and a tool_name that is not registered has
\* exactly one error Event (error_type unknown_tool) pushed, on that session's
\* channel, is answered 400 unknown_tool, and no handler is invoked.
C5_UnknownTool ==
  \A r \in Reqs :
    (Received(r) /\ LiveOnEntry(r) /\ req[r].tool_name \notin RegisteredNames) =>
      /\ req[r].reply = Reply(400, "unknown_tool", req[r].id)
      /\ OnePushOn(r, req[r].ch)
      /\ PushOf(r).data.type = "error"
      /\ PushOf(r).data.error_type = "unknown_tool"
      /\ PushOf(r).data.id = req[r].id
      /\ HandlerNeverInvoked(r)
\* an unknown tool was called while two sessions were live, and the frame went out
C5_Witness ==
  \E r \in Reqs :
    /\ req[r].reply.error_type = "unknown_tool"
    /\ req[r].tool_name = "no-such-tool"
    /\ PushSet(r) # {} /\ PushOf(r).ok /\ PushOf(r).data.error_type = "unknown_tool"
    /\ Cardinality(DOMAIN activeSseClients) = 2

\* ---- C6
\* C6: a request with a live client_id and a registered tool whose payload breaks
\* the tool's parameter contract is answered 400 invalid_parameters, one error
\* Event with the same correlation id is pushed on the session's channel, and
\* neither the handler nor a collaborator call is started.
C6_InvalidParameters ==
  \A r \in Reqs :
    (Received(r) /\ LiveOnEntry(r) /\ req[r].tool_name \in RegisteredNames
       /\ SchemaViolated(req[r].tool_name, req[r].parameters)) =>
      /\ req[r].reply = Reply(400, "invalid_parameters", req[r].id)
      /\ OnePushOn(r, req[r].ch)
      /\ PushOf(r).data.type = "error"
      /\ PushOf(r).data.error_type = "invalid_parameters"
      /\ PushOf(r).data.id = req[r].id
      /\ HandlerNeverInvoked(r)
\* get-forecast with latitude 999 was rejected and the error frame went out
C6_Witness ==
  \E r \in Reqs :
    /\ req[r].reply.error_type = "invalid_parameters"
    /\ req[r].tool_name = "get-forecast" /\ req[r].parameters = PForecastLat
    /\ PushSet(r) # {} /\ PushOf(r).ok

\* ---- C7
\* The error_type the claimed order of checks gives a request ("ok": none fails).
FirstFailing(r) ==
  IF req[r].client_id \in {CidUndefined, CidEmpty} THEN "missing_client_id"
  ELSE IF ~LiveOnEntry(r) THEN "invalid_client_id"
  ELSE IF req[r].tool_name \notin RegisteredNames THEN "unknown_tool"
  ELSE IF SchemaViolated(req[r].tool_name, req[r].parameters) THEN "invalid_parameters"
  ELSE "ok"
\* C7: the checks run in the order missing client_id, unknown client_id, unknown
\* tool, invalid parameters; the first that fails gives the reply's error_type,
\* the handler is not started, and the only write is the one error Event of an
\* unknown_tool or invalid_parameters rejection, issued before the reply.
C7_FirstFailingCheck ==
  \A r \in Reqs :
    (Received(r) /\ FirstFailing(r) # "ok") =>
      /\ req[r].reply = Reply(400, FirstFailing(r),
           IF FirstFailing(r) \in {"missing_client_id", "invalid_client_id"}
             THEN OrUnknown(req[r].id) ELSE req[r].id)
      /\ HandlerNeverInvoked(r)
      /\ IF FirstFailing(r) \in {"missing_client_id", "invalid_client_id"}
           THEN PushSet(r) = {} /\ req[r].trace = <<"reply">>
           ELSE /\ OnePushOn(r, req[r].ch)
                /\ PushOf(r).data.error_type = FirstFailing(r)
                /\ req[r].trace = <<"push", "reply">>
\* a request that fails the client_id check, the tool check and has a bad payload,
\* next to one that fails the client_id check and the parameter check
C7_Witness ==
  \E r1, r2 \in Reqs :
    /\ req[r1].reply.error_type = "invalid_client_id"
    /\ req[r1].tool_name = "no-such-tool" /\ req[r1].parameters = PAlertsLong
    /\ req[r2].reply.error_type = "missing_client_id"
    /\ req[r2].tool_name = "get-forecast" /\ req[r2].parameters = PForecastBoth

\* ---- C8
\* C8: when the tool handler rejects and the request's client_id is in the session
\* registry at that moment, exactly one error Event with error_type tool_error and
\* the request's correlation id is pushed on that session's channel, and the HTTP
\* reply is 500 with error_type tool_error.
C8_ToolError ==
  \A r \in Reqs :
    (req[r].outcome = "rejected" /\ LiveAtSettle(r)) =>
      /\ OnePushOn(r, req[r].sch)
      /\ PushOf(r).data.type = "error"
      /\ PushOf(r).data.error_type = "tool_error"
      /\ PushOf(r).data.id = req[r].id
      /\ req[r].reply = Reply(500, "tool_error", req[r].id)
\* a handler threw on a live session and the error frame went out
C8_Witness ==
  \E r \in Reqs :
    /\ req[r].outcome = "rejected" /\ LiveAtSettle(r)
    /\ PushSet(r) # {} /\ PushOf(r).ok /\ PushOf(r).data.error_type = "tool_error"
    /\ req[r].reply.status = 500

\* ---- C9
\* C9 (as claimed): once the teardown of a session has run, nothing more is written
\* to its channel, and when a handler of one of its earlier invocations settles
\* afterwards nothing is written to any channel.
C9_NothingAfterRemoval ==
  [][/\ \A c \in Channels : TornDown(c) => chan'[c].writes = chan[c].writes
     /\ \A r \in Reqs :
          (Settled(r) /\ LiveOnEntry(r) /\ TornDown(req[r].ch)) => chan' = chan]_vars

\* ---- C10
\* C10 (as claimed): a token whose session was removed from the registry by a
\* teardown is not in the registry in any later state.
C10_NeverRevived ==
  \A c \in Channels : TornDown(c) => ~Registered(chan[c].clientId)

\* ---- C11
\* Channel c is open: its /sse handler stored it and none of its teardown hooks ran.
Open(c) == chan[c].st = "open" /\ ~TornDown(c)
RegisteredAs(c) ==
  Registered(chan[c].clientId) /\ activeSseClients[chan[c].clientId] = c
\* C11 (as claimed): every open channel is stored in the session registry under its
\* own token, so the registry has as many entries as there are open channels.
C11_LiveTokensDistinct ==
  /\ \A c \in Channels : Open(c) => RegisteredAs(c)
  /\ Cardinality(DOMAIN activeSseClients) = Cardinality({c \in Channels : Open(c)})

\* ---- C12
FailedWrite(c) == \E i \in DOMAIN chan[c].writes : ~chan[c].writes[i].ok
\* C12 (as claimed): once a write to a channel has failed, whether one of the two
\* initial frames or a later tool_response/error push, the channel's session is no
\* longer in the session registry.
C12_FailedWriteDestroys ==
  \A c \in Channels : FailedWrite(c) => ~RegisteredAs(c)

\* ---- C13
\* C13 (as claimed): a session leaves the registry only through the teardown hook
\* of its channel, and the removal runs once per channel: never for both an error
\* and a close of the same channel, and never without a hook.
C13_TeardownHookOnce ==
  \A c \in Channels :
    chan[c].st # "none" =>
      /\ ~(chan[c].errored /\ chan[c].st = "closed")
      /\ ~RegisteredAs(c) => TornDown(c)

\* ---- C14
\* A step in which a teardown hook of channel c ran activeSseClients.delete.
RemovalRan(c) ==
  \/ chan[c].st = "open" /\ chan'[c].st = "closed"
  \/ ~chan[c].errored /\ chan'[c].errored
C15_DuplicateFailsFast ==
  [][\A i \in DOMAIN tools : i \in DOMAIN tools' /\ tools'[i] = tools[i]]_vars

\* ---- C16
Names(m) == [i \in DOMAIN m |-> m[i].name]
\* The schema fields that carry no optional/default marker.
UnmarkedFields(schema) == {schema[i].key : i \in {j \in DOMAIN schema : ~schema[j].optional}}
Injective(q) == \A i, j \in DOMAIN q : q[i] = q[j] => i = j
\* C16: during module load each registerTool call either appends a new name to the
\* registry's names or leaves their order as it is; once the server listens the
\* capability list has exactly one entry per registered name, in that order, each
\* with the description of its definition and with `required` listing exactly the
\* fields without an optional/default marker (the key is left out when there is
\* none); every handshake frame carries this list.
C16_CapabilityList ==
  /\ [][pc = "load" =>
          \/ Names(tools') = Names(tools)
          \/ /\ Len(tools') = Len(tools) + 1
             /\ SubSeq(Names(tools'), 1, Len(tools)) = Names(tools)
             /\ \A i \in DOMAIN tools : tools[i].name # tools'[Len(tools')].name]_vars
  /\ [](pc = "listen" =>
          /\ Names(mcpHandshakeResponse) = Names(tools)
          /\ Injective(Names(mcpHandshakeResponse))
          /\ \A i \in DOMAIN tools :
               /\ mcpHandshakeResponse[i].description = tools[i].description
               /\ {mcpHandshakeResponse[i].required[k] :
                     k \in DOMAIN mcpHandshakeResponse[i].required}
                    = UnmarkedFields(tools[i].schema)
               /\ Injective(mcpHandshakeResponse[i].required)
               /\ mcpHandshakeResponse[i].hasRequired
                    <=> UnmarkedFields(tools[i].schema) # {}
          /\ \A c \in Channels : \A i \in DOMAIN chan[c].writes :
               chan[c].writes[i].data.type = "mcp_handshake_response" =>
                 chan[c].writes[i].data.capabilities = mcpHandshakeResponse)
\* a handshake frame went out after "ping" (no required field) was registered first,
\* "get-alerts" twice and "brave-web-search" (one optional field) last
C16_Witness ==
  \E c \in Channels :
    /\ Len(Frames(c)) >= 1
    /\ Names(Frames(c)[1].data.capabilities) = <<"ping", "get-alerts", "brave-web-search">>
    /\ ~Frames(c)[1].data.capabilities[1].hasRequired
    /\ Frames(c)[1].data.capabilities[2].description = "Get alerts"
    /\ Frames(c)[1].data.capabilities[3].required = <<"query">>

\* ---- C17
IsPrefix(p, q) == Len(p) <= Len(q) /\ SubSeq(q, 1, Len(p)) = p
PushIndexOf(r) == (CHOOSE x \in PushSet(r) : TRUE)[2]
\* C17: every step leaves the writes a channel already has where they are and puts
\* the writes it issues behind them, and a write is issued in the step of the
\* handler that calls it (the /sse handler, or the invocation whose handler segment
\* runs): on the channel, Events are in the order of the push calls.
C17_PushOrderKept ==
  [][\A c \in Channels :
       /\ IsPrefix(chan[c].writes, chan'[c].writes)
       /\ \A i \in DOMAIN chan'[c].writes :
            i > Len(chan[c].writes) =>
              \/ chan'[c].writes[i].r = 0 /\ chan[c].st = "none"
              \/ chan'[c].writes[i].r # 0
                   /\ req'[chan'[c].writes[i].r] # req[chan'[c].writes[i].r]]_vars
\* two invocations ran concurrently on one session: the one received later was
\* pushed first, and both frames are on the channel in that order
C17_Witness ==
  \E r1, r2 \in Reqs, c \in Channels :
    /\ r1 < r2 /\ OnePushOn(r1, c) /\ OnePushOn(r2, c)
    /\ PushIndexOf(r2) < PushIndexOf(r1)
    /\ PushOf(r1).ok /\ PushOf(r2).ok

\* ---- C18
\* Invocations rA and rB passed all checks, their handlers have settled, and the
\* token of both was registered for the same channel at both moments.
BothCompleted(rA, rB) ==
  /\ rA # rB
  /\ req[rA].outcome # "" /\ req[rB].outcome # ""
  /\ LiveAtSettle(rA) /\ req[rA].sch = req[rB].sch
\* C18 (as claimed): when two invocations of a session have both completed while
\* the session stayed open, each has its terminal Event (tool_response or error)
\* on the session's channel, carrying the correlation id and the tool name of its
\* own request.
C18_BothCarryIdAndTool ==
  \A rA, rB \in Reqs :
    BothCompleted(rA, rB) =>
      /\ OnePushOn(rA, req[rA].sch)
      /\ PushOf(rA).data.id = req[rA].id
      /\ PushOf(rA).data.tool_name = req[rA].tool_name
\* C18 (amended): each of the two has its terminal Event on the session's channel
\* with its own correlation id, in either order; a tool_response Event also carries
\* the tool name of its request, an error Event (handler failure) carries
\* error_type tool_error and no tool name.
C18_BothArrive ==
  \A rA, rB \in Reqs :
    BothCompleted(rA, rB) =>
      /\ OnePushOn(rA, req[rA].sch)
      /\ PushOf(rA).data.id = req[rA].id
      /\ IF req[rA].outcome = "resolved"
           THEN /\ PushOf(rA).data.type = "tool_response"
                /\ PushOf(rA).data.tool_name = req[rA].tool_name
           ELSE /\ PushOf(rA).data.type = "error"
                /\ PushOf(rA).data.error_type = "tool_error"
                /\ PushOf(rA).data.tool_name = ""
\* A (id "a") was submitted before B (id "b") on one session, B's handler completed
\* first, and both Events are on the channel, B's before A's
C18_Witness ==
  \E rA, rB \in Reqs :
    /\ rA < rB /\ BothCompleted(rA, rB)
    /\ req[rA].id = "a" /\ req[rB].id = "b"
    /\ req[rA].outcome = "resolved" /\ req[rB].outcome = "resolved"
    /\ PushSet(rA) # {} /\ PushSet(rB) # {}
    /\ PushIndexOf(rB) < PushIndexOf(rA)
    /\ PushOf(rA).data.id = "a" /\ PushOf(rB).data.id = "b"

\* ---- C19
\* C19 (as claimed): no two frames of one channel carry the same message id.
C19_MessageIdsDistinct ==
  \A c \in Channels : Injective([i \in DOMAIN Frames(c) |-> Frames(c)[i].id])

\* ---- C20
\* C20 (as claimed): the text of every write is the id line, the event line and
\* the data line, each ended by a line feed, and one more line feed for the blank
\* line.
C20_FrameLines ==
  \A c \in Channels : \A i \in DOMAIN chan[c].writes :
    SseMessage(chan[c].writes[i]) =
      "id: " \o SseMessageId(chan[c].writes[i].id) \o "\n"
        \o "event: " \o chan[c].writes[i].event \o "\n"
        \o "data: " \o JsonStringify(chan[c].writes[i].data) \o "\n"
        \o "\n"

\* ---- C21
\* Request r calls brave-web-search on a live session with a count outside 1..20.
BraveCountOutside(r) ==
  /\ Received(r) /\ LiveOnEntry(r) /\ req[r].tool_name = "brave-web-search"
  /\ req[r].parameters.obj /\ req[r].parameters.f["query"].k = "string"
  /\ req[r].parameters.f["count"].k = "number"
  /\ (req[r].parameters.f["count"].n < 1 \/ req[r].parameters.f["count"].n > 20)
\* C21 (as claimed): brave-web-search with count outside [1,20] is answered with
\* error_type invalid_parameters, no Event is pushed, and the handler is not called.
C21_NoEventPushed ==
  \A r \in Reqs :
    BraveCountOutside(r) =>
      /\ req[r].reply.error_type = "invalid_parameters"
      /\ PushSet(r) = {}
      /\ HandlerNeverInvoked(r)
\* C21 (amended): brave-web-search with count outside [1,20] is answered 400 with
\* error_type invalid_parameters, exactly one error Event with error_type
\* invalid_parameters and the request's correlation id is pushed on the session's
\* channel, and the handler is not called.
C21_CountRejected ==
  \A r \in Reqs :
    BraveCountOutside(r) =>
      /\ req[r].reply = Reply(400, "invalid_parameters", req[r].id)
      /\ OnePushOn(r, req[r].ch)
      /\ PushOf(r).data.type = "error"
      /\ PushOf(r).data.error_type = "invalid_parameters"
      /\ PushOf(r).data.id = req[r].id
      /\ HandlerNeverInvoked(r)
\* brave-web-search was called with count 25 and the error frame went out
C21_Witness ==
  \E r \in Reqs :
    /\ BraveCountOutside(r) /\ req[r].parameters = PSearch25
    /\ req[r].st = "done" /\ PushSet(r) # {} /\ PushOf(r).ok

\* ---- C22
\* The fields of a payload that break the tool's parameter contract ("": the
\* payload itself is missing).
BreaksRange(v, optional, lo, hi) ==
  IF v.k = "undefined" THEN ~optional ELSE OutOfRange(v, lo, hi)
ViolatedFields(tool_name, p) ==
  IF ~p.obj THEN {""}
  ELSE CASE tool_name = "get-alerts" ->
              {k \in {"state"} : p.f[k].k # "string" \/ Len(p.f[k].s) # 2}
         [] tool_name = "get-forecast" ->
              {k \in {"latitude"} : BreaksRange(p.f[k], FALSE, -90, 90)}
                \cup {k \in {"longitude"} : BreaksRange(p.f[k], FALSE, -180, 180)}
         [] tool_name = "brave-web-search" ->
              {k \in {"query"} : p.f[k].k # "string"}
                \cup {k \in {"count"} : BreaksRange(p.f[k], TRUE, 1, 20)}
         [] OTHER ->
              {k \in {"query"} : p.f[k].k # "string"}
                \cup {k \in {"count"} : BreaksRange(p.f[k], TRUE, 1, 10)}
\* C22: the error payload of an invalid_parameters rejection has one entry for
\* every field that breaks the tool's contract, not only the first: as many
\* entries as violated fields, one stemming from each of them.
C22_EveryViolationListed ==
  \A r \in Reqs :
    req[r].reply.error_type = "invalid_parameters" =>
      /\ PushSet(r) # {}
      /\ Len(PushOf(r).data.issues) =
           Cardinality(ViolatedFields(req[r].tool_name, req[r].parameters))
      /\ {PushOf(r).data.issues[i].path : i \in DOMAIN PushOf(r).data.issues}
           = ViolatedFields(req[r].tool_name, req[r].parameters)
\* get-forecast was called with latitude 91 and longitude -181, and the rejection
\* lists both
C22_Witness ==
  \E r \in Reqs :
    /\ req[r].reply.error_type = "invalid_parameters"
    /\ req[r].tool_name = "get-forecast" /\ req[r].parameters = PForecastBoth
    /\ PushSet(r) # {} /\ Len(PushOf(r).data.issues) = 2

\* ---- C23
\* The texts a handler returns when its collaborator gave null or an empty list.
DegradedTexts ==
  {"Failed to retrieve alerts data", "Failed to get forecast data for this location",
   "No forecast data available", "No search results found",
   "No results found from Google Search."}
\* C23: when a collaborator HTTP call of an invocation failed (network error or
\* non-OK status) the handler still returns: the reply is 202 and, the session
\* being registered at that moment, the one Event pushed is a tool_response with a
\* descriptive text; there is no tool_error Event and no 500 reply.
C23_UpstreamFailureDegrades ==
  \A r \in Reqs :
    req[r].upfail =>
      /\ req[r].outcome = "resolved"
      /\ req[r].reply = Reply(202, "", req[r].id)
      /\ \A x \in PushSet(r) : chan[x[1]].writes[x[2]].data.type = "tool_response"
      /\ LiveAtSettle(r) =>
           /\ OnePushOn(r, req[r].sch)
           /\ PushOf(r).data.text \in DegradedTexts
\* the second HTTP request of a get-forecast invocation failed: the invocation
\* ended with 202 and its tool_response frame says that no forecast is available
C23_Witness ==
  \E r \in Reqs :
    /\ req[r].tool_name = "get-forecast" /\ req[r].calls = 2 /\ req[r].upfail
    /\ req[r].reply.status = 202
    /\ PushSet(r) # {} /\ PushOf(r).ok
    /\ PushOf(r).data.text = "No forecast data available"

\* ---- C24
\* C24 (as claimed): every write issued for an invocation goes to the channel of
\* the session the request was made for (the channel its client_id stood for when
\* the request was received), never to the channel of another session.
C24_OnlyOwnSession ==
  \A r \in Reqs : \A x \in PushSet(r) : x[1] = req[r].ch

\* ---- C25
\* C25: a step that handles an invocation request (its entry segment or the segment
\* after the handler settled, whatever the outcome) leaves the session registry as
\* it is; the registry changes only in a step that opens a channel or in which a
\* close/error hook of a channel runs.
C25_InvocationKeepsRegistry ==
  [][/\ req' # req => activeSseClients' = activeSseClients
     /\ activeSseClients' # activeSseClients =>
          \/ nch' = nch + 1
          \/ \E c \in Channels : RemovalRan(c)]_vars
\* on one session an invocation was rejected with a pushed error Event, and the
\* result of another invocation arrived after the session had vanished
C25_Witness ==
  \E r1, r2 \in Reqs :
    /\ req[r1].reply.status = 202 /\ LiveOnEntry(r1) /\ ~LiveAtSettle(r1)
    /\ req[r2].reply.error_type \in {"unknown_tool", "invalid_parameters"}
    /\ req[r2].ch = req[r1].ch

\* ---- C26
IsHandshake(w) == w.data.type = "mcp_handshake_response"
\* C26: while the server listens the tool registry holds the four definitions
\* registered at startup, unchanged by any channel open, channel close or
\* invocation, and the handshake frames of all channels carry the same payload,
\* whose capability list names those four tools.
C26_RegistryFrozen ==
  /\ tools = Registrations
  /\ \A c1, c2 \in Channels :
       \A i \in DOMAIN chan[c1].writes : \A j \in DOMAIN chan[c2].writes :
         (IsHandshake(chan[c1].writes[i]) /\ IsHandshake(chan[c2].writes[j])) =>
           /\ chan[c1].writes[i].data = chan[c2].writes[j].data
           /\ Names(chan[c1].writes[i].data.capabilities) = Names(Registrations)
\* a channel was opened, used for an invocation and closed, and a channel opened
\* at a later time got its handshake frame
C26_Witness ==
  \E c1, c2 \in Channels, r \in Reqs :
    /\ chan[c1].st = "closed" /\ req[r].st = "done" /\ req[r].ch = c1
    /\ Len(Frames(c1)) >= 1 /\ Len(Frames(c2)) >= 1
    /\ IsHandshake(Frames(c2)[1]) /\ Frames(c1)[1].id # Frames(c2)[1].id

\* ---- C27
\* C27 (as claimed): when the result of an invocation cannot be serialized, the
\* push is dropped and nothing else happens: no Event is written for the
\* invocation in its place and the failure is not reported as a tool_error.
C27_SerializationDropped ==
  \A r \in Reqs :
    (req[r].outcome = "resolved" /\ req[r].tool_name = "cyclic") =>
      /\ PushSet(r) = {}
      /\ req[r].reply.error_type # "tool_error"
      /\ req[r].reply.status # 500

====
